---- MODULE Spec2Model ----
(***************************************************************************)
(* Model of the Amazon affiliate forwarder (bot/ package): link            *)
(* extraction, product-key derivation, tag rewriting, the posted-keys      *)
(* store, the Bitly shortener, the light text rewriter and the message     *)
(* handler that composes them on a cooperative event loop.                 *)
(*                                                                         *)
(* Strings are sequences of one-character strings, so that the regular     *)
(* expressions and str methods of the source are computed character by     *)
(* character.                                                              *)
(***************************************************************************)
EXTENDS Integers, Sequences, FiniteSets, TLC

(***************************************************************************)
(* Characters                                                              *)
(***************************************************************************)
LOWER == <<"a","b","c","d","e","f","g","h","i","j","k","l","m","n","o","p","q","r","s","t","u","v","w","x","y","z">>
UPPER == <<"A","B","C","D","E","F","G","H","I","J","K","L","M","N","O","P","Q","R","S","T","U","V","W","X","Y","Z">>
DIGITS == <<"0","1","2","3","4","5","6","7","8","9">>

Range(q) == {q[i] : i \in 1..Len(q)}
PosIn(c, q) == CHOOSE i \in 1..Len(q) : q[i] = c

ToLower == [c \in Range(UPPER) |-> LOWER[PosIn(c, UPPER)]]
ToUpper == [c \in Range(LOWER) |-> UPPER[PosIn(c, LOWER)]]

\* str.lower() / str.upper() on one character
Lower(c) == IF c \in DOMAIN ToLower THEN ToLower[c] ELSE c
Upper(c) == IF c \in DOMAIN ToUpper THEN ToUpper[c] ELSE c
LowerStr(s) == [i \in 1..Len(s) |-> Lower(s[i])]
UpperStr(s) == [i \in 1..Len(s) |-> Upper(s[i])]

\* the regex classes \s, [A-Z0-9] under re.I, and \w
Whitespace == {" ", "\t", "\n", "\r", "\f"}
AlnumChars == Range(LOWER) \cup Range(UPPER) \cup Range(DIGITS)
WordChars == AlnumChars \cup {"_"}

(***************************************************************************)
(* Regex building blocks                                                   *)
(***************************************************************************)
\* the lower-case literal lit matches s at position i, ignoring case (re.I)
IsAt(s, i, lit) ==
    /\ i >= 1
    /\ i + Len(lit) - 1 <= Len(s)
    /\ \A k \in 1..Len(lit) : Lower(s[i + k - 1]) = lit[k]

Least(S) == CHOOSE x \in S : \A y \in S : x <= y
Greatest(S) == CHOOSE x \in S : \A y \in S : x >= y

\* least j >= i with s[j] in C, or Len(s) + 1: where a greedy [^C]* started at i stops
FirstIn(s, i, C) ==
    LET hits == {j \in i..Len(s) : s[j] \in C}
    IN  IF hits = {} THEN Len(s) + 1 ELSE Least(hits)

(***************************************************************************)
(* bot/utils/amazon.py                                                     *)
(***************************************************************************)
AFFILIATE_TAG == <<"m","y","i","d","-","2","1">>

\* the {10} of the ASIN patterns
AsinLen == 10

\* a URL pattern that forgets the retailer's domain: https?://[^\s]*
UrlEndAt_any(s, i) ==
    IF ~IsAt(s, i, <<"h","t","t","p">>) THEN 0
    ELSE LET j0 == IF IsAt(s, i + 4, <<"s">>) THEN i + 5 ELSE i + 4
         IN  IF ~IsAt(s, j0, <<":","/","/">>) THEN 0
             ELSE FirstIn(s, j0 + 3, Whitespace) - 1

\* AMAZON_URL_RE = https?://[^\s]*amazon\.[^\s/]+[^\s]*  (re.I) tried at i:
\* the index of the last character of the match, or 0 when there is none.
\* Every [^\s]* is greedy, so a match runs to the end of the whitespace-free
\* run; backtracking lets any "amazon." of the run serve, as long as a
\* character other than "/" follows it inside the run.
UrlEndAt(s, i) ==
    IF ~IsAt(s, i, <<"h","t","t","p">>) THEN 0
    ELSE LET j0 == IF IsAt(s, i + 4, <<"s">>) THEN i + 5 ELSE i + 4
         IN  IF ~IsAt(s, j0, <<":","/","/">>) THEN 0
             ELSE LET j == j0 + 3
                      e == FirstIn(s, j, Whitespace) - 1
                  IN  IF \E k \in j..e :
                             /\ IsAt(s, k, <<"a","m","a","z","o","n",".">>)
                             /\ k + 7 <= e
                             /\ s[k + 7] # "/"
                      THEN e ELSE 0

\* re.findall: leftmost matches, scanning on from the end of each match
RECURSIVE findall(_, _)
findall(s, i) ==
    LET hits == {j \in i..Len(s) : UrlEndAt(s, j) > 0}
    IN  IF hits = {} THEN <<>>
        ELSE LET b == Least(hits)
                 e == UrlEndAt(s, b)
             IN  <<SubSeq(s, b, e)>> \o findall(s, e + 1)

extract_amazon_urls(text) == findall(text, 1)

\* one ASIN pattern tried at i: an optional [?&], the literal, then
\* ([A-Z0-9]{10}); the group's first index, or 0
AsinGroupAt(s, i, sep, lit) ==
    LET j == IF sep THEN i + 1 ELSE i
        g == j + Len(lit)
    IN  IF /\ (sep => (i <= Len(s) /\ s[i] \in {"?", "&"}))
           /\ IsAt(s, j, lit)
           /\ g + AsinLen - 1 <= Len(s)
           /\ \A k \in g..(g + AsinLen - 1) : s[k] \in AlnumChars
        THEN g ELSE 0

\* pat.search(url): group 1 of the leftmost match, or <<>> for no match
pat_search(s, sep, lit) ==
    LET hits == {i \in 1..Len(s) : AsinGroupAt(s, i, sep, lit) > 0}
    IN  IF hits = {} THEN <<>>
        ELSE LET i == Least(hits)
                 g == AsinGroupAt(s, i, sep, lit)
             IN  SubSeq(s, g, g + AsinLen - 1)

\* the patterns with the query parameter tried first
ASIN_PATTERNS_query_first == <<
    [sep |-> TRUE,  lit |-> <<"a","s","i","n","=">>],
    [sep |-> FALSE, lit |-> <<"/","d","p","/">>],
    [sep |-> FALSE, lit |-> <<"/","g","p","/","p","r","o","d","u","c","t","/">>] >>

\* ASIN_PATTERNS in their order: /dp/, /gp/product/, [?&]asin=
ASIN_PATTERNS == <<
    [sep |-> FALSE, lit |-> <<"/","d","p","/">>],
    [sep |-> FALSE, lit |-> <<"/","g","p","/","p","r","o","d","u","c","t","/">>],
    [sep |-> TRUE,  lit |-> <<"a","s","i","n","=">>] >>

\* get_asin: the first pattern that matches, upper-cased; None is <<>>
RECURSIVE asin_from(_, _)
asin_from(url, p) ==
    IF p > Len(ASIN_PATTERNS) THEN <<>>
    ELSE LET m == pat_search(url, ASIN_PATTERNS[p].sep, ASIN_PATTERNS[p].lit)
         IN  IF m # <<>> THEN UpperStr(m) ELSE asin_from(url, p + 1)

get_asin(url) == asin_from(url, 1)

\* ([?&])tag=[^&]* tried at i: the index after the match, or 0
TagEndAt(s, i) ==
    IF s[i] \in {"?", "&"} /\ IsAt(s, i + 1, <<"t","a","g","=">>)
    THEN FirstIn(s, i + 5, {"&"}) ELSE 0

\* a substitution with count=1: only the leftmost match is deleted
sub_tag_once(s, i) ==
    LET hits == {j \in i..Len(s) : TagEndAt(s, j) > 0}
    IN  IF hits = {} THEN SubSeq(s, i, Len(s))
        ELSE LET b == Least(hits)
             IN  SubSeq(s, i, b - 1) \o SubSeq(s, TagEndAt(s, b), Len(s))

\* re.sub(r'([?&])tag=[^&]*', '', url, flags=re.I), from position i on:
\* every leftmost match is deleted, the scan going on after it
RECURSIVE sub_tag(_, _)
sub_tag(s, i) ==
    LET hits == {j \in i..Len(s) : TagEndAt(s, j) > 0}
    IN  IF hits = {} THEN SubSeq(s, i, Len(s))
        ELSE LET b == Least(hits)
             IN  SubSeq(s, i, b - 1) \o sub_tag(s, TagEndAt(s, b))

\* ([?&])utm_[^=]+=[^&]* tried at i: the index after the match, or 0.
\* [^=]+ needs at least one character before the first "=" after utm_
UtmEndAt(s, i) ==
    LET eq == FirstIn(s, i + 5, {"="})
    IN  IF /\ s[i] \in {"?", "&"}
           /\ IsAt(s, i + 1, <<"u","t","m","_">>)
           /\ eq > i + 5
           /\ eq <= Len(s)
        THEN FirstIn(s, eq + 1, {"&"}) ELSE 0

\* re.sub(r'([?&])utm_[^=]+=[^&]*', '', url, flags=re.I), from position i on
RECURSIVE sub_utm(_, _)
sub_utm(s, i) ==
    LET hits == {j \in i..Len(s) : UtmEndAt(s, j) > 0}
    IN  IF hits = {} THEN SubSeq(s, i, Len(s))
        ELSE LET b == Least(hits)
             IN  SubSeq(s, i, b - 1) \o sub_utm(s, UtmEndAt(s, b))

\* re.sub(r'#.*$', '', url) on a URL (no line break in it)
sub_fragment(s) == SubSeq(s, 1, FirstIn(s, 1, {"#"}) - 1)

\* str.rstrip('?&')
rstrip(s) ==
    LET keep == {j \in 1..Len(s) : s[j] \notin {"?", "&"}}
    IN  IF keep = {} THEN <<>> ELSE SubSeq(s, 1, Greatest(keep))

normalize_url_remove_tracking(url) ==
    rstrip(sub_fragment(sub_utm(sub_tag(url, 1), 1)))

replace_amazon_tag(url) ==
    LET clean_url == normalize_url_remove_tracking(url)
        separator == IF "?" \in Range(clean_url) THEN <<"&">> ELSE <<"?">>
    IN  clean_url \o separator \o <<"t","a","g","=">> \o AFFILIATE_TAG

\* message_handler.py line 28: key = asin or normalize_url_remove_tracking(url)
product_key(url) ==
    LET asin == get_asin(url)
    IN  IF asin # <<>> THEN asin ELSE normalize_url_remove_tracking(url)

(***************************************************************************)
(* bot/utils/rewrite.py                                                    *)
(***************************************************************************)
SYNONYMS ==
    (<<"b","u","y">> :> << <<"g","r","a","b">>, <<"g","e","t">> >>) @@
    (<<"t","o","d","a","y">> :>
        << <<"r","i","g","h","t"," ","n","o","w">>,
           <<"t","o","d","a","y"," ","o","n","l","y">> >>)

\* the EXTRA_HASHTAGS setting (config.py line 47), here configured
EXTRA_HASHTAGS == <<"#","a","d">>

\* re.split(r'(\W+)', text): the word tokens are the maximal runs of \w
IsTokenStart(s, i) == s[i] \in WordChars /\ (i = 1 \/ s[i - 1] \notin WordChars)
TokenEnd(s, i) ==
    LET stops == {j \in i..Len(s) : s[j] \notin WordChars}
    IN  IF stops = {} THEN Len(s) ELSE Least(stops) - 1

\* the tokens t with t.lower() in SYNONYMS, by their first index
SynStarts(s) ==
    {i \in 1..Len(s) :
        IsTokenStart(s, i) /\ LowerStr(SubSeq(s, i, TokenEnd(s, i))) \in DOMAIN SYNONYMS}

\* the outcomes of the random draws of one light_rewrite(text) call:
\* trigger is not (random.random() > REWRITE_LEVEL); pick[k] is 0 when the
\* draw for the k-th synonym token is >= 0.5, else the index random.choice
\* takes; tags is the draw < 0.3 for the hashtags
RewriteDraws(text) ==
    [trigger : BOOLEAN, tags : BOOLEAN,
     pick : [1..Cardinality(SynStarts(text)) -> 0..2]]

\* str.capitalize()
capitalize(w) ==
    [i \in 1..Len(w) |-> IF i = 1 THEN Upper(w[i]) ELSE Lower(w[i])]

\* lines 18-25: the tokens from position i on, k - 1 synonym tokens done
RECURSIVE rewrite_tokens(_, _, _, _)
rewrite_tokens(s, i, k, pick) ==
    LET hits == {j \in SynStarts(s) : j >= i}
    IN  IF hits = {} THEN SubSeq(s, i, Len(s))
        ELSE LET b == Least(hits)
                 e == TokenEnd(s, b)
                 t == SubSeq(s, b, e)
                 repl == SYNONYMS[LowerStr(t)][pick[k]]
                 out == IF pick[k] = 0 THEN t
                        ELSE IF t[1] \in Range(UPPER) THEN capitalize(repl)
                        ELSE repl
             IN  SubSeq(s, i, b - 1) \o out \o rewrite_tokens(s, e + 1, k + 1, pick)

light_rewrite(text, draws) ==
    IF text = <<>> \/ ~draws.trigger THEN text
    ELSE rewrite_tokens(text, 1, 1, draws.pick)
            \o (IF EXTRA_HASHTAGS # <<>> /\ draws.tags
                THEN <<" ">> \o EXTRA_HASHTAGS ELSE <<>>)

\* str.replace(old, new, 1): the first occurrence of old, if any, replaced
replace_first(text, old, new) ==
    LET hits == {i \in 1..(Len(text) - Len(old) + 1) :
                    SubSeq(text, i, i + Len(old) - 1) = old}
    IN  IF hits = {} THEN text
        ELSE LET b == Least(hits)
             IN  SubSeq(text, 1, b - 1) \o new \o SubSeq(text, b + Len(old), Len(text))

(***************************************************************************)
(* URL inputs for the pure functions.  A URL is host, path, query          *)
(* parameters joined by "&" after one "?", and a fragment.  A decoration   *)
(* of a URL adds tracking parameters (the affiliate tag, utm_ parameters)  *)
(* at any positions of its query, and a fragment: the decorated URL and    *)
(* the bare one differ in nothing else.                                    *)
(***************************************************************************)
\* at most this many tracking parameters are added to a URL
MaxTrack == 2

HOST == <<"h","t","t","p","s",":","/","/","w","w","w",".","a","m","a","z","o","n",".","i","n">>
ASIN1 == <<"B","0","A","B","C","D","E","F","G","1">>
DpPath == <<"/","d","p","/">> \o ASIN1
SearchPath == <<"/","s">>
UrlPaths == {DpPath, SearchPath}

OldTagParam == <<"t","a","g","=","o","l","d","-","2","0">>
UtmParam == <<"u","t","m","_","s","o","u","r","c","e","=","x">>
PlainParam == <<"k","=","1">>
TrackingParams == {OldTagParam, UtmParam}
EssentialQueries == {<<>>, <<PlainParam>>}
Fragments == {<<>>, <<"#","f">>}

RECURSIVE JoinParams(_)
JoinParams(ps) ==
    IF ps = <<>> THEN <<>>
    ELSE IF Len(ps) = 1 THEN ps[1]
    ELSE ps[1] \o <<"&">> \o JoinParams(Tail(ps))

RenderUrl(path, ps, frag) ==
    HOST \o path \o (IF ps = <<>> THEN <<>> ELSE <<"?">> \o JoinParams(ps)) \o frag

IsEssential(p) == p \notin TrackingParams

\* product URLs: where the code sits in the path, and whether the query
\* carries another code in an asin= parameter
ASIN2 == <<"B","0","C","C","C","C","C","C","C","2">>
ASIN4 == <<"B","0","D","D","D","D","D","D","D","4">>
CodePlaces == {"dp", "gp", "gp_dp", "none"}
Products == [place : CodePlaces, query : BOOLEAN]

\* the URL of a product, its codes written in upper or in lower case
RenderProduct(p, lower) ==
    LET letters(code) == IF lower THEN LowerStr(code) ELSE code
    IN
    HOST
    \o (IF p.place \in {"gp", "gp_dp"}
        THEN <<"/","g","p","/","p","r","o","d","u","c","t","/">> \o letters(ASIN2) ELSE <<>>)
    \o (IF p.place \in {"dp", "gp_dp"}
        THEN <<"/","d","p","/">> \o letters(ASIN1) ELSE <<>>)
    \o (IF p.place = "none" THEN SearchPath ELSE <<>>)
    \o <<"?">> \o PlainParam
    \o (IF p.query THEN <<"&","a","s","i","n","=">> \o letters(ASIN4) ELSE <<>>)

\* the queries that are ess with at most MaxTrack tracking parameters added
DecoratedQueries(ess) ==
    {q \in UNION {[1..n -> TrackingParams \cup {PlainParam}] : n \in 0..(Len(ess) + MaxTrack)} :
        SelectSeq(q, IsEssential) = ess}

(***************************************************************************)
(* bot/utils/persistence.py                                                *)
(***************************************************************************)
\* str.strip()
strip(line) ==
    LET keep == {j \in 1..Len(line) : line[j] \notin Whitespace}
    IN  IF keep = {} THEN <<>> ELSE SubSeq(line, Least(keep), Greatest(keep))

\* posted_links.txt: whether it exists (os.path.exists) and its lines
NoFile == [exists |-> FALSE, lines |-> <<>>]
FileOf(ls) == [exists |-> TRUE, lines |-> ls]

\* the non-empty lines of the file
NonEmptyLines(file) == {l \in Range(file.lines) : l # <<>>}

\* a startup that leaves the set empty, as if line 40 were missing
load_posted_keys_none(file) == {}

\* a load without the test of line 18: blank lines are added too
load_posted_keys_keeps_blank(file) ==
    IF ~file.exists THEN {} ELSE {strip(file.lines[n]) : n \in 1..Len(file.lines)}

\* load_posted_keys: nothing for a missing file (lines 13-14), else every
\* non-empty stripped line of the file
load_posted_keys(file) ==
    IF ~file.exists THEN {}
    ELSE {strip(file.lines[n]) :
            n \in {k \in 1..Len(file.lines) : strip(file.lines[k]) # <<>>}}

is_posted(key, keys) == key \in keys

\* a mark_as_posted that writes the file and forgets the in-memory set
add_posted_forgets(keys, key) == keys

\* a mark_as_posted that assigns the set instead of adding to it
add_posted_replaces(keys, key) == {key}

\* mark_as_posted, line 32: _posted_keys.add(key)
add_posted(keys, key) == keys \cup {key}

\* mark_as_posted, lines 33-37: the append, or the logged failure to append
\* (open(..., "a") creates a missing file); a failed append leaves the file as it was
persist_key(file, key, written) ==
    IF written THEN FileOf(Append(file.lines, key)) ELSE file

(***************************************************************************)
(* bot/utils/bitly.py                                                      *)
(***************************************************************************)
\* what the POST to the Bitly API can come to: a transport error or
\* timeout, a non-200/201 status, and a 200 whose body is not JSON, is JSON
\* but no object, is an object without "link", or has "link" null, a
\* number, or a string
ShortenResponses ==
    {"transport_error", "status_500", "ok_not_json", "ok_not_object",
     "ok_no_link", "ok_link_null", "ok_link_number", "ok_link"}

SHORT_LINK == <<"h","t","t","p",":","/","/","b","i","t",".","l","y","/","1">>

\* a Python value a URL variable can hold: a str, None, or a number
StrVal(s) == [kind |-> "str", val |-> s]
NoneVal == [kind |-> "None", val |-> <<>>]
NumberVal == [kind |-> "int", val |-> <<>>]

\* bitly._session and the ClientSession objects created so far: ref is the
\* index of the object _session refers to (0 for None), objs[i] is "open"
\* or "closed"
NoSession == [ref |-> 0, objs |-> <<>>]
OpenSessions(sess) == {i \in 1..Len(sess.objs) : sess.objs[i] = "open"}
ClosedSessions(sess) == {i \in 1..Len(sess.objs) : sess.objs[i] = "closed"}
IsOpen(sess) == sess.ref # 0 /\ sess.objs[sess.ref] = "open"

\* a get_session that makes a new ClientSession at every call
get_session_always_new(sess) ==
    [ref |-> Len(sess.objs) + 1, objs |-> Append(sess.objs, "open")]

\* get_session: a session is created when there is none or it is closed
get_session(sess) ==
    IF sess.ref = 0 \/ sess.objs[sess.ref] = "closed"
    THEN [ref |-> Len(sess.objs) + 1, objs |-> Append(sess.objs, "open")]
    ELSE sess

\* a close_session that only drops the reference
close_session_forgets(sess) == [sess EXCEPT !.ref = 0]

\* close_session: the session _session refers to is closed if it is open;
\* _session keeps referring to it
close_session(sess) ==
    IF IsOpen(sess) THEN [sess EXCEPT !.objs[sess.ref] = "closed"] ELSE sess

\* shorten_bitly with a token, lines 33-44, on the response resp:
\* resp.json() raises on a body that is not JSON and data.get raises on a
\* body that is no object, both caught at line 41; data.get("link",
\* long_url) is the value of "link" whenever the key is there
shorten_result(resp, long_url) ==
    CASE resp = "ok_link" -> StrVal(SHORT_LINK)
      [] resp = "ok_link_null" -> NoneVal
      [] resp = "ok_link_number" -> NumberVal
      [] OTHER -> StrVal(long_url)

(***************************************************************************)
(* bot/client.py                                                           *)
(***************************************************************************)
\* a send_error_alert without its try/except: a failed delivery raises
send_error_alert_raises(delivered) == IF delivered THEN "returned" ELSE "raised"

\* send_error_alert: a failure to deliver the alert is caught and logged,
\* so the call returns either way
send_error_alert(delivered) == "returned"

(***************************************************************************)
(* Inbound events                                                          *)
(***************************************************************************)
\* the number of inbound messages handled in a run
MaxMsgs == 2

Msgs == 1..MaxMsgs

ASIN3 == <<"B","0","B","B","B","B","B","B","B","3">>
UrlA == RenderUrl(DpPath, <<OldTagParam>>, <<>>)
UrlS == RenderUrl(SearchPath, <<PlainParam>>, <<>>)
UrlBuy == HOST \o <<"/","b","u","y","/","d","p","/">> \o ASIN3

\* "Check this https://www.amazon.in/dp/B0ABCDEFG1?tag=old-20 deal!"
TextA == <<"C","h","e","c","k"," ","t","h","i","s"," ">> \o UrlA \o <<" ","d","e","a","l","!">>
\* two links, the first for the product of TextA
TextTwo == RenderUrl(DpPath, <<>>, <<>>) \o <<" ">> \o UrlS
\* "Hot https://www.amazon.in/buy/dp/B0BBBBBBB3"
TextBuy == <<"H","o","t"," ">> \o UrlBuy
\* a link, but not to the retailer
TextOther == <<"s","e","e"," ","h","t","t","p",":","/","/","e","x","a","m","p","l","e",".","c","o","m","/","x">>

NoLinkTexts == {<<>>, TextOther}

\* event.message.message (None and "" are both "" after line 17) and
\* whether event.message.media is set
Events ==
    {[text |-> <<>>, media |-> FALSE],
     [text |-> TextOther, media |-> TRUE],
     [text |-> TextA, media |-> TRUE],
     [text |-> TextTwo, media |-> FALSE],
     [text |-> TextBuy, media |-> FALSE]}
NoEvent == [text |-> <<>>, media |-> FALSE]

\* what the posted-links file can hold at startup
InitialFiles == {NoFile, FileOf(<<ASIN1>>)}

\* FloodWaitError.seconds
FloodSeconds == {5}

\* at most this many appends to the posted-links file fail in a run
MaxWriteFailures == 1

VARIABLES
    BITLY_TOKEN,   \* config: whether a Bitly token is set
    posted_keys,   \* persistence._posted_keys
    db_file,       \* the lines of posted_links.txt
    session,       \* bitly._session and the sessions created
    cur,           \* the handler running on the event loop, 0 when it is free
    h,             \* per message: the handler's position and locals
    event,         \* per message: the inbound event
    sent,          \* per message: how many send_file / send_message calls were made
    alerts,        \* per message: how many alerts were attempted
    write_failures,\* how many appends to the file have failed
    obs,           \* per message: a record of what the handler did
    restarts       \* how many times the process was stopped and started again

botVars == <<BITLY_TOKEN, posted_keys, db_file, session, cur, h, event, sent, alerts, write_failures, obs, restarts>>

VARIABLES
    uA,        \* a URL, decorated
    uB,        \* the same URL, bare
    keyA,      \* product_key(uA), once derived
    keyB,      \* product_key(uB), once derived
    tagged,    \* replace_amazon_tag(uA), once applied
    norm1,     \* normalize_url_remove_tracking(uA), once applied
    norm2,     \* normalize_url_remove_tracking(norm1), once applied
    prod,      \* a product URL: where its codes sit
    asinU,     \* get_asin of the product URL, once derived
    asinL,     \* get_asin of the same URL with its codes in lower case
    udone      \* which functions have been applied

urlVars == <<uA, uB, keyA, keyB, tagged, norm1, norm2, prod, asinU, asinL, udone>>

vars == <<BITLY_TOKEN, posted_keys, db_file, session, cur, h, event, sent, alerts, write_failures, obs, restarts, uA, uB, keyA, keyB, tagged, norm1, norm2, prod, asinU, asinL, udone>>

(***************************************************************************)
(* bot/handlers/message_handler.py: user_client_message_handler.           *)
(* Handlers are tasks of one event loop: a handler runs alone from one     *)
(* await that suspends to the next (cur names it), and any other handler   *)
(* may run while it is suspended.  shorten_bitly suspends only in its      *)
(* POST, so with no token the await at line 35 does not suspend.           *)
(***************************************************************************)
\* the handler's position and locals; mode and caption are the arguments
\* of the send in flight; plain and new_urls record, for the run of the
\* loop, whether every shorten_bitly call so far returned for want of a
\* token or on a status 500, and the URLs processed so far
IdleTask ==
    [pc |-> "idle", urls |-> <<>>, i |-> 0, new_text |-> <<>>, posted_any |-> FALSE,
     key |-> <<>>, aff_url |-> <<>>, short_url |-> NoneVal, resp |-> "none",
     caption |-> <<>>, mode |-> "none", wait |-> 0,
     plain |-> TRUE, new_urls |-> <<>>]

\* a handler that has returned: its locals are gone
DoneTask == [IdleTask EXCEPT !.pc = "done"]

IdleObs ==
    [shortens |-> 0, keys |-> <<>>, floods |-> 0, fault |-> FALSE,
     dup_at_start |-> {}, repeat |-> FALSE, outcome |-> "none", wfail |-> FALSE,
     epoch |-> 0, durable_at_start |-> {}]

\* the bot's state before the first message; persistence.py line 40 has
\* loaded the file
BotStart(token, file) ==
    /\ BITLY_TOKEN = token
    /\ db_file = file
    /\ posted_keys = load_posted_keys(file)
    /\ session = NoSession
    /\ cur = 0
    /\ h = [m \in Msgs |-> IdleTask]
    /\ event = [m \in Msgs |-> NoEvent]
    /\ sent = [m \in Msgs |-> 0]
    /\ alerts = [m \in Msgs |-> 0]
    /\ write_failures = 0
    /\ obs = [m \in Msgs |-> IdleObs]
    /\ restarts = 0

BotIdle == BotStart(FALSE, NoFile)

UrlIdle ==
    /\ uA = <<>>
    /\ uB = <<>>
    /\ keyA = <<>>
    /\ keyB = <<>>
    /\ tagged = <<>>
    /\ norm1 = <<>>
    /\ norm2 = <<>>
    /\ prod = [place |-> "none", query |-> FALSE]
    /\ asinU = <<>>
    /\ asinL = <<>>
    /\ udone = {}

Init ==
    /\ \E token \in BOOLEAN, file \in InitialFiles : BotStart(token, file)
    /\ UrlIdle

Finish(m, outcome) ==
    /\ h' = [h EXCEPT ![m] = DoneTask]
    /\ obs' = [obs EXCEPT ![m].outcome = outcome]
    /\ cur' = 0

\* lines 17-24: the next message arrives while the loop is free; with no
\* Amazon URL in it the handler returns at line 21
Receive(m, ev) ==
    /\ cur = 0
    /\ h[m].pc = "idle"
    /\ \A o \in Msgs : o < m => h[o].pc # "idle"
    /\ event' = [event EXCEPT ![m] = ev]
    /\ LET amazon_urls == extract_amazon_urls(ev.text)
           seen == [obs[m] EXCEPT
                      !.dup_at_start =
                          {product_key(amazon_urls[n]) : n \in 1..Len(amazon_urls)}
                              \cap posted_keys,
                      !.repeat = \E o \in Msgs : /\ obs[o].outcome = "PUBLISHED"
                                                 /\ event[o].text = ev.text,
                      !.epoch = restarts,
                      !.durable_at_start =
                          {product_key(amazon_urls[n]) : n \in 1..Len(amazon_urls)}
                              \cap NonEmptyLines(db_file)]
       IN  IF amazon_urls = <<>>
           THEN /\ h' = [h EXCEPT ![m] = DoneTask]
                /\ obs' = [obs EXCEPT ![m] = [seen EXCEPT !.outcome = "DROPPED"]]
                /\ cur' = 0
           ELSE /\ h' = [h EXCEPT ![m] = [IdleTask EXCEPT
                            !.pc = "loop", !.urls = amazon_urls, !.i = 1,
                            !.new_text = ev.text]]
                /\ obs' = [obs EXCEPT ![m] = seen]
                /\ cur' = m
    /\ UNCHANGED <<urlVars, restarts, BITLY_TOKEN, posted_keys, db_file, session, sent, alerts, write_failures>>

AtLink(m) ==
    /\ cur = m
    /\ h[m].pc = "loop"
    /\ h[m].i <= Len(h[m].urls)

\* lines 27-31: the key is posted already, continue
SkipPosted(m) ==
    /\ AtLink(m)
    /\ is_posted(product_key(h[m].urls[h[m].i]), posted_keys)
    /\ h' = [h EXCEPT ![m].i = @ + 1]
    /\ UNCHANGED <<urlVars, restarts, BITLY_TOKEN, posted_keys, db_file, session, cur, event, sent, alerts,
                   write_failures, obs>>

\* lines 27-35 with no token: shorten_bitly returns long_url at once
ShortenDisabled(m) ==
    LET url == h[m].urls[h[m].i]
        key == product_key(url)
        aff_url == replace_amazon_tag(url)
    IN  /\ AtLink(m)
        /\ ~is_posted(key, posted_keys)
        /\ ~BITLY_TOKEN
        /\ h' = [h EXCEPT ![m] = [@ EXCEPT
                    !.pc = "replace", !.key = key, !.aff_url = aff_url,
                    !.short_url = StrVal(aff_url), !.resp = "disabled"]]
        /\ obs' = [obs EXCEPT ![m].shortens = @ + 1]
        /\ UNCHANGED <<urlVars, restarts, BITLY_TOKEN, posted_keys, db_file, session, cur, event, sent,
                       alerts, write_failures>>

\* lines 27-35 with a token: the session is got and the POST suspends
ShortenRequest(m) ==
    LET url == h[m].urls[h[m].i]
        key == product_key(url)
        aff_url == replace_amazon_tag(url)
    IN  /\ AtLink(m)
        /\ ~is_posted(key, posted_keys)
        /\ BITLY_TOKEN
        /\ session' = get_session(session)
        /\ h' = [h EXCEPT ![m] = [@ EXCEPT
                    !.pc = "shorten", !.key = key, !.aff_url = aff_url]]
        /\ obs' = [obs EXCEPT ![m].shortens = @ + 1]
        /\ cur' = 0
        /\ UNCHANGED <<urlVars, restarts, BITLY_TOKEN, posted_keys, db_file, event, sent, alerts,
                       write_failures>>

\* bitly.py lines 34-44: the POST is answered and shorten_bitly returns
ShortenResponse(m, resp) ==
    /\ cur = 0
    /\ h[m].pc = "shorten"
    /\ h' = [h EXCEPT ![m] = [@ EXCEPT
                !.pc = "replace", !.short_url = shorten_result(resp, h[m].aff_url),
                !.resp = resp]]
    /\ cur' = m
    /\ UNCHANGED <<urlVars, restarts, BITLY_TOKEN, posted_keys, db_file, session, event, sent, alerts,
                   write_failures, obs>>

\* lines 36-40: the substitution, then mark_as_posted, whose append to the
\* file may fail
ReplaceAndMark(m, written) ==
    /\ cur = m
    /\ h[m].pc = "replace"
    /\ h[m].short_url.kind = "str"
    /\ written \/ write_failures < MaxWriteFailures
    /\ h' = [h EXCEPT ![m] = [@ EXCEPT
                !.pc = "loop", !.i = @ + 1, !.posted_any = TRUE,
                !.new_text = replace_first(@, h[m].urls[h[m].i], h[m].short_url.val),
                !.key = <<>>, !.aff_url = <<>>, !.short_url = NoneVal, !.resp = "none",
                !.plain = @ /\ h[m].resp \in {"disabled", "status_500"},
                !.new_urls = Append(@, h[m].urls[h[m].i])]]
    /\ posted_keys' = add_posted(posted_keys, h[m].key)
    /\ db_file' = persist_key(db_file, h[m].key, written)
    /\ write_failures' = IF written THEN write_failures ELSE write_failures + 1
    /\ obs' = [obs EXCEPT ![m].keys = Append(@, h[m].key),
                           ![m].wfail = @ \/ ~written]
    /\ UNCHANGED <<urlVars, restarts, BITLY_TOKEN, session, cur, event, sent, alerts>>

\* line 36 with short_url not a str: str.replace raises TypeError, caught
\* at line 61; send_error_alert is called and suspends in its send
ReplaceRaises(m) ==
    /\ cur = m
    /\ h[m].pc = "replace"
    /\ h[m].short_url.kind # "str"
    /\ h' = [h EXCEPT ![m] = [DoneTask EXCEPT !.pc = "alert"]]
    /\ alerts' = [alerts EXCEPT ![m] = @ + 1]
    /\ obs' = [obs EXCEPT ![m].fault = TRUE]
    /\ cur' = 0
    /\ UNCHANGED <<urlVars, restarts, BITLY_TOKEN, posted_keys, db_file, session, event, sent, write_failures>>

\* lines 42-43: every link was a duplicate
AllDuplicates(m) ==
    /\ cur = m
    /\ h[m].pc = "loop"
    /\ h[m].i > Len(h[m].urls)
    /\ ~h[m].posted_any
    /\ Finish(m, "DROPPED")
    /\ UNCHANGED <<urlVars, restarts, BITLY_TOKEN, posted_keys, db_file, session, event, sent, alerts,
                   write_failures>>

\* lines 46-50: the caption is rewritten and the handler sleeps
Rewrite(m) ==
    /\ cur = m
    /\ h[m].pc = "loop"
    /\ h[m].i > Len(h[m].urls)
    /\ h[m].posted_any
    /\ \E draws \in RewriteDraws(h[m].new_text) :
          h' = [h EXCEPT ![m] = [DoneTask EXCEPT
                  !.pc = "sleep", !.caption = light_rewrite(h[m].new_text, draws),
                  !.new_text = h[m].new_text,
                  !.plain = h[m].plain, !.new_urls = h[m].new_urls]]
    /\ cur' = 0
    /\ UNCHANGED <<urlVars, restarts, BITLY_TOKEN, posted_keys, db_file, session, event, sent, alerts,
                   write_failures, obs>>

\* a publish that always sends plain text
publish_mode_text(media) == "send_message"

\* lines 53-56: send_file with the media and the caption, or send_message
publish_mode(media) == IF media THEN "send_file" ELSE "send_message"

\* lines 53-56: after the sleep, send_file or send_message is called
Publish(m) ==
    /\ cur = 0
    /\ h[m].pc = "sleep"
    /\ sent' = [sent EXCEPT ![m] = @ + 1]
    /\ h' = [h EXCEPT ![m] = [@ EXCEPT
                !.pc = "publish",
                !.mode = publish_mode(event[m].media)]]
    /\ UNCHANGED <<urlVars, restarts, BITLY_TOKEN, posted_keys, db_file, session, cur, event, alerts,
                   write_failures, obs>>

\* the send succeeds and the handler returns
PublishOk(m) ==
    /\ cur = 0
    /\ h[m].pc = "publish"
    /\ Finish(m, "PUBLISHED")
    /\ UNCHANGED <<urlVars, restarts, BITLY_TOKEN, posted_keys, db_file, session, event, sent, alerts,
                   write_failures>>

\* lines 58-60: the send raises FloodWaitError; the handler sleeps e.seconds
PublishFlood(m, seconds) ==
    /\ cur = 0
    /\ h[m].pc = "publish"
    /\ h' = [h EXCEPT ![m] = [DoneTask EXCEPT !.pc = "floodsleep", !.wait = seconds]]
    /\ obs' = [obs EXCEPT ![m].floods = @ + 1]
    /\ UNCHANGED <<urlVars, restarts, BITLY_TOKEN, posted_keys, db_file, session, cur, event, sent, alerts,
                   write_failures>>

\* line 60 is the handler's last statement: after the sleep it returns
FloodWake(m) ==
    /\ cur = 0
    /\ h[m].pc = "floodsleep"
    /\ Finish(m, "RATE_LIMITED")
    /\ UNCHANGED <<urlVars, restarts, BITLY_TOKEN, posted_keys, db_file, session, event, sent, alerts,
                   write_failures>>

\* lines 61-63: the send raises another exception; send_error_alert is called
PublishError(m) ==
    /\ cur = 0
    /\ h[m].pc = "publish"
    /\ h' = [h EXCEPT ![m] = [DoneTask EXCEPT !.pc = "alert"]]
    /\ alerts' = [alerts EXCEPT ![m] = @ + 1]
    /\ obs' = [obs EXCEPT ![m].fault = TRUE]
    /\ UNCHANGED <<urlVars, restarts, BITLY_TOKEN, posted_keys, db_file, session, cur, event, sent,
                   write_failures>>

\* client.py lines 16-19: the alert is delivered or not, and the handler ends
AlertDone(m, delivered) ==
    /\ cur = 0
    /\ h[m].pc = "alert"
    /\ Finish(m, IF send_error_alert(delivered) = "returned" THEN "FAILED" ELSE "UNHANDLED")
    /\ UNCHANGED <<urlVars, restarts, BITLY_TOKEN, posted_keys, db_file, session, event, sent, alerts,
                   write_failures>>

Next ==
    \/ \E m \in Msgs, ev \in Events : Receive(m, ev)
    \/ \E m \in Msgs : SkipPosted(m)
    \/ \E m \in Msgs : ShortenDisabled(m)
    \/ \E m \in Msgs : ShortenRequest(m)
    \/ \E m \in Msgs, resp \in ShortenResponses : ShortenResponse(m, resp)
    \/ \E m \in Msgs, written \in BOOLEAN : ReplaceAndMark(m, written)
    \/ \E m \in Msgs : ReplaceRaises(m)
    \/ \E m \in Msgs : AllDuplicates(m)
    \/ \E m \in Msgs : Rewrite(m)
    \/ \E m \in Msgs : Publish(m)
    \/ \E m \in Msgs : PublishOk(m)
    \/ \E m \in Msgs, seconds \in FloodSeconds : PublishFlood(m, seconds)
    \/ \E m \in Msgs : FloodWake(m)
    \/ \E m \in Msgs : PublishError(m)
    \/ \E m \in Msgs, delivered \in BOOLEAN : AlertDone(m, delivered)

Spec == Init /\ [][Next]_vars

UrlInit ==
    \E path \in UrlPaths, ess \in EssentialQueries :
        \E q \in DecoratedQueries(ess), frag \in Fragments :
            /\ uA = RenderUrl(path, q, frag)
            /\ uB = RenderUrl(path, ess, <<>>)
            /\ keyA = <<>>
            /\ keyB = <<>>
            /\ tagged = <<>>
            /\ norm1 = <<>>
            /\ norm2 = <<>>
            /\ prod \in Products
            /\ asinU = <<>>
            /\ asinL = <<>>
            /\ udone = {}
            /\ BotIdle

\* message_handler.py line 27-28 on each of the two URLs
DeriveKeys ==
    /\ "keys" \notin udone
    /\ keyA' = product_key(uA)
    /\ keyB' = product_key(uB)
    /\ udone' = udone \cup {"keys"}
    /\ UNCHANGED <<uA, uB, tagged, norm1, norm2, prod, asinU, asinL>>
    /\ UNCHANGED botVars

\* message_handler.py line 34
ApplyTag ==
    /\ "tag" \notin udone
    /\ tagged' = replace_amazon_tag(uA)
    /\ udone' = udone \cup {"tag"}
    /\ UNCHANGED <<uA, uB, keyA, keyB, norm1, norm2, prod, asinU, asinL>>
    /\ UNCHANGED botVars

\* amazon.py lines 29-36, applied to a URL and then to its own result
Normalize ==
    /\ "norm" \notin udone
    /\ norm1' = normalize_url_remove_tracking(uA)
    /\ norm2' = normalize_url_remove_tracking(normalize_url_remove_tracking(uA))
    /\ udone' = udone \cup {"norm"}
    /\ UNCHANGED <<uA, uB, keyA, keyB, tagged, prod, asinU, asinL>>
    /\ UNCHANGED botVars

\* amazon.py lines 19-27, applied to a product URL in both letter cases
DeriveAsins ==
    /\ "asin" \notin udone
    /\ asinU' = get_asin(RenderProduct(prod, FALSE))
    /\ asinL' = get_asin(RenderProduct(prod, TRUE))
    /\ udone' = udone \cup {"asin"}
    /\ UNCHANGED <<uA, uB, keyA, keyB, tagged, norm1, norm2, prod>>
    /\ UNCHANGED botVars

UrlNext == DeriveKeys \/ ApplyTag \/ Normalize \/ DeriveAsins

SpecUrl == UrlInit /\ [][UrlNext]_vars

(***************************************************************************)
(* C9: two URLs that differ only in their affiliate-tag parameter, their   *)
(* utm_ parameters and their fragment have the same product key.           *)
(***************************************************************************)
C9_SameKey == ("keys" \in udone) => (keyA = keyB)

(***************************************************************************)
(* C10: the URL replace_amazon_tag returns has its query introduced by a   *)
(* single "?" with the parameters joined by "&" after it, exactly one tag  *)
(* parameter, which is tag=AFFILIATE_TAG, no utm_ parameter and no         *)
(* fragment.                                                               *)
(***************************************************************************)
QueryStart(t) == FirstIn(t, 1, {"?"})
ParamStarts(t) ==
    {QueryStart(t) + 1} \cup {j + 1 : j \in {k \in QueryStart(t)..Len(t) : t[k] = "&"}}
ParamAt(t, b) == SubSeq(t, b, FirstIn(t, b, {"&"}) - 1)
TagWellFormed(t) ==
    /\ Cardinality({j \in 1..Len(t) : t[j] = "?"}) = 1
    /\ \A j \in 1..(QueryStart(t) - 1) : t[j] # "&"
    /\ "#" \notin Range(t)
    /\ \A b \in ParamStarts(t) : ~IsAt(t, b, <<"u","t","m","_">>)
    /\ Cardinality({b \in ParamStarts(t) : IsAt(t, b, <<"t","a","g","=">>)}) = 1
    /\ \A b \in ParamStarts(t) :
          IsAt(t, b, <<"t","a","g","=">>) => ParamAt(t, b) = <<"t","a","g","=">> \o AFFILIATE_TAG

C10_TagWellFormed == ("tag" \in udone) => TagWellFormed(tagged)

(***************************************************************************)
(* Claims about the handler                                                *)
(***************************************************************************)
EventUrls(m) == extract_amazon_urls(event[m].text)
EventKeys(m) == {product_key(EventUrls(m)[n]) : n \in 1..Len(EventUrls(m))}

\* w occurs in text as a whole whitespace-delimited word
HasToken(text, w) ==
    \E b \in 1..(Len(text) - Len(w) + 1) :
        /\ SubSeq(text, b, b + Len(w) - 1) = w
        /\ (b = 1 \/ text[b - 1] \in Whitespace)
        /\ (b + Len(w) > Len(text) \/ text[b + Len(w)] \in Whitespace)

(***************************************************************************)
(* C1: no product key is newly processed by two messages that both reach   *)
(* the publish call, whatever the interleaving of the handlers and         *)
(* whether or not shortening is enabled.                                   *)
(***************************************************************************)
C1_NoDuplicatePublish ==
    \A m1, m2 \in Msgs :
        (m1 # m2 /\ sent[m1] > 0 /\ sent[m2] > 0)
            => Range(obs[m1].keys) \cap Range(obs[m2].keys) = {}

(***************************************************************************)
(* C2: every rate-limit signal on the publish call is followed, after the  *)
(* wait, by another publish call for the same message: when the handler    *)
(* has returned it has made one more publish call than it got signals.     *)
(***************************************************************************)
C2_RetryAfterFlood ==
    \A m \in Msgs :
        (h[m].pc = "done" /\ obs[m].floods > 0) => sent[m] = obs[m].floods + 1

(***************************************************************************)
(* C3: a message identical to one that was processed to a successful       *)
(* publish before it arrived is dropped: no publish call, no shortener     *)
(* call, no key recorded, no alert.                                        *)
(***************************************************************************)
C3_RepeatDropped ==
    \A m \in Msgs :
        obs[m].repeat =>
            /\ sent[m] = 0
            /\ obs[m].shortens = 0
            /\ obs[m].keys = <<>>
            /\ alerts[m] = 0
            /\ h[m].pc \in {"loop", "done"}
            /\ h[m].pc = "done" => obs[m].outcome = "DROPPED"

C3_Witness ==
    \E m \in Msgs :
        /\ obs[m].repeat
        /\ event[m].text = TextTwo
        /\ h[m].pc = "done"
        /\ obs[m].outcome = "DROPPED"

(***************************************************************************)
(* C4: handling a message without a retailer link (an empty text           *)
(* included) is one step that ends the handler and changes neither the     *)
(* posted keys, the file, the shortener session, nor the counts of         *)
(* shortener calls, publish calls and alerts.                              *)
(***************************************************************************)
C4_NoLinkNoEffect ==
    [][\A m \in Msgs :
          (h[m].pc = "idle" /\ h'[m].pc # "idle" /\ event'[m].text \in NoLinkTexts)
              => /\ h'[m].pc = "done"
                 /\ obs'[m].outcome = "DROPPED"
                 /\ obs'[m].shortens = 0
                 /\ obs'[m].keys = <<>>
                 /\ UNCHANGED <<posted_keys, db_file, session, sent, alerts>>]_vars

C4_Witness ==
    \E m \in Msgs :
        /\ h[m].pc = "done"
        /\ event[m].text = TextOther
        /\ obs[m].outcome = "DROPPED"
        /\ posted_keys # {}

(***************************************************************************)
(* C5: a message with two links, one whose key is already posted when the  *)
(* handler starts and one whose key is new, makes exactly one publish      *)
(* call, one shortener call and one record call, both for the new link,    *)
(* whose key is posted afterwards.                                         *)
(***************************************************************************)
C5_PartialDuplicate ==
    \A m \in Msgs :
        ( /\ h[m].pc = "done"
          /\ Len(EventUrls(m)) = 2
          /\ Cardinality(EventKeys(m)) = 2
          /\ Cardinality(obs[m].dup_at_start) = 1 )
            => /\ sent[m] = 1
               /\ obs[m].shortens = 1
               /\ Len(obs[m].keys) = 1
               /\ obs[m].keys[1] \in EventKeys(m) \ obs[m].dup_at_start
               /\ obs[m].keys[1] \in posted_keys

(***************************************************************************)
(* C6: a failure other than a rate limit is caught in the handler: one     *)
(* alert is attempted for the message (and none for a message without      *)
(* failure), the message is not published again, the handler returns       *)
(* normally whether or not the alert is delivered, and it does not hold    *)
(* the event loop, so that later messages are handled.                     *)
(***************************************************************************)
C6_FailureContained ==
    \A m \in Msgs :
        /\ obs[m].outcome # "UNHANDLED"
        /\ alerts[m] = (IF obs[m].fault THEN 1 ELSE 0)
        /\ obs[m].fault =>
              /\ h[m].pc \in {"alert", "done"}
              /\ cur # m
              /\ sent[m] <= 1
              /\ h[m].pc = "done" => obs[m].outcome = "FAILED"

C6_Witness ==
    \E m, o \in Msgs :
        /\ m < o
        /\ obs[m].fault
        /\ obs[m].outcome = "FAILED"
        /\ ~obs[o].fault
        /\ obs[o].outcome = "PUBLISHED"
        /\ event[o].text = event[m].text

(***************************************************************************)
(* C7: shorten_bitly always returns a URL string, and it is long_url       *)
(* itself when there is no token, on a transport error, on a status other  *)
(* than 200/201 and on every malformed body of a 200.                      *)
(***************************************************************************)
FallbackResponses ==
    {"disabled", "transport_error", "status_500", "ok_not_json", "ok_not_object",
     "ok_no_link", "ok_link_null", "ok_link_number"}

C7_ShortenReturnsUrl ==
    \A m \in Msgs :
        h[m].pc = "replace" =>
            /\ h[m].short_url.kind = "str"
            /\ h[m].resp \in FallbackResponses => h[m].short_url.val = h[m].aff_url

(***************************************************************************)
(* C8: when every newly processed link of a message went through           *)
(* shorten_bitly with no token or with a status 500, the text passed to    *)
(* the publish call holds, for each such link, exactly                     *)
(* replace_amazon_tag(link), whatever light_rewrite drew.                  *)
(***************************************************************************)
C8_FallbackUrlPublished ==
    \A m \in Msgs :
        (h[m].pc = "publish" /\ h[m].plain) =>
            \A n \in 1..Len(h[m].new_urls) :
                HasToken(h[m].caption, replace_amazon_tag(h[m].new_urls[n]))

(***************************************************************************)
(* C11: a handler that has checked a key with is_posted and has not yet    *)
(* recorded it with mark_as_posted holds the event loop (no other handler  *)
(* runs in between), and the key is still unposted when it is recorded,    *)
(* with or without a Bitly token.                                          *)
(***************************************************************************)
C11_NoYieldBetweenCheckAndRecord ==
    \A m \in Msgs :
        /\ h[m].pc \in {"shorten", "replace"} => cur = m
        /\ h[m].pc = "replace" => ~is_posted(h[m].key, posted_keys)

(***************************************************************************)
(* C12: when send_file / send_message is called, the key of every link     *)
(* newly processed in the message is in the posted keys, and the keys a    *)
(* message recorded stay there once the call was made, whether it          *)
(* succeeds, signals a rate limit or fails.                                *)
(***************************************************************************)
C12_RecordedBeforePublish ==
    \A m \in Msgs :
        /\ h[m].pc = "publish" =>
              /\ h[m].new_urls # <<>>
              /\ Len(obs[m].keys) = Len(h[m].new_urls)
              /\ \A n \in 1..Len(h[m].new_urls) :
                    /\ obs[m].keys[n] = product_key(h[m].new_urls[n])
                    /\ is_posted(product_key(h[m].new_urls[n]), posted_keys)
        /\ sent[m] > 0 =>
              /\ obs[m].keys # <<>>
              /\ \A n \in 1..Len(obs[m].keys) : is_posted(obs[m].keys[n], posted_keys)

C12_Witness ==
    \E m, o \in Msgs :
        /\ obs[m].outcome = "FAILED"
        /\ sent[m] = 1
        /\ Len(obs[m].keys) = 2
        /\ obs[o].outcome = "RATE_LIMITED"
        /\ obs[o].keys # <<>>

(***************************************************************************)
(* C15: when the append to the file fails in mark_as_posted, the key is    *)
(* in the posted keys all the same, and the message whose key it is gets   *)
(* its publish call.                                                       *)
(***************************************************************************)
C15_WriteFailureTolerated ==
    \A m \in Msgs :
        obs[m].wfail =>
            /\ \A n \in 1..Len(obs[m].keys) : is_posted(obs[m].keys[n], posted_keys)
            /\ h[m].pc = "done" => sent[m] = 1

(***************************************************************************)
(* C18: a message that reaches the publish step gets one publish call:     *)
(* send_file when the inbound message carries media, send_message when it  *)
(* does not, and the text sent is what light_rewrite made of the working   *)
(* text.                                                                   *)
(***************************************************************************)
C18_PublishMode ==
    \A m \in Msgs :
        /\ sent[m] <= 1
        /\ h[m].pc \in {"sleep"} => sent[m] = 0
        /\ h[m].pc = "publish" =>
              /\ sent[m] = 1
              /\ h[m].mode = (IF event[m].media THEN "send_file" ELSE "send_message")
              /\ \E d \in RewriteDraws(h[m].new_text) :
                    h[m].caption = light_rewrite(h[m].new_text, d)
        /\ h[m].pc # "publish" => h[m].mode = "none"
        /\ obs[m].outcome \in {"PUBLISHED", "RATE_LIMITED"} => sent[m] = 1
        /\ obs[m].outcome = "DROPPED" => sent[m] = 0

C18_Witness ==
    \E m, o \in Msgs :
        /\ h[m].pc = "publish"
        /\ event[m].media
        /\ h[m].mode = "send_file"
        /\ h[m].caption # h[m].new_text
        /\ h[o].pc = "publish"
        /\ ~event[o].media
        /\ h[o].mode = "send_message"

(***************************************************************************)
(* The handler on messages with several links, with no Bitly token: the    *)
(* same handler steps as in Spec, on texts in which a link occurs twice    *)
(* or is the beginning of another link.                                    *)
(***************************************************************************)
\* "https://www.amazon.in/s?k=1&p=2", of which UrlS is a prefix
UrlLong == RenderUrl(SearchPath, <<PlainParam, <<"p","=","2">>>>, <<>>)

TextPrefix == UrlLong \o <<" ">> \o UrlS
TextRev == UrlS \o <<" ">> \o UrlLong
TextTwice == UrlS \o <<" ">> \o UrlS

SubstEvents ==
    {[text |-> t, media |-> FALSE] : t \in {TextPrefix, TextRev, TextTwice, TextTwo}}

SubstFiles == {NoFile, FileOf(<<ASIN1>>), FileOf(<<UrlLong>>)}

TextInit ==
    /\ \E file \in SubstFiles : BotStart(FALSE, file)
    /\ UrlIdle

TextNext ==
    \/ \E m \in Msgs, ev \in SubstEvents : Receive(m, ev)
    \/ \E m \in Msgs : SkipPosted(m)
    \/ \E m \in Msgs : ShortenDisabled(m)
    \/ \E m \in Msgs : ReplaceAndMark(m, TRUE)
    \/ \E m \in Msgs : AllDuplicates(m)
    \/ \E m \in Msgs : Rewrite(m)
    \/ \E m \in Msgs : Publish(m)
    \/ \E m \in Msgs : PublishOk(m)

SpecText == TextInit /\ [][TextNext]_vars

\* the text s from position i on with every link's own occurrence handled
\* in order: a link whose key is in seen (posted before, or met earlier in
\* the text) stays as it is, any other is replaced by its final URL, which
\* is replace_amazon_tag of it when there is no token
RECURSIVE OwnOccurrenceText(_, _, _)
OwnOccurrenceText(s, i, seen) ==
    LET hits == {j \in i..Len(s) : UrlEndAt(s, j) > 0}
    IN  IF hits = {} THEN SubSeq(s, i, Len(s))
        ELSE LET b == Least(hits)
                 e == UrlEndAt(s, b)
                 u == SubSeq(s, b, e)
                 k == product_key(u)
             IN  SubSeq(s, i, b - 1)
                    \o (IF k \in seen THEN u ELSE replace_amazon_tag(u))
                    \o OwnOccurrenceText(s, e + 1, seen \cup {k})

(***************************************************************************)
(* C13: when the loop over the links ends, the working text is the         *)
(* message's text in which the occurrence of every skipped link is         *)
(* unchanged and the occurrence of every newly processed link is replaced  *)
(* by that link's final URL, also when a link occurs twice or is a prefix  *)
(* of another.                                                             *)
(***************************************************************************)
C13_OwnOccurrenceReplaced ==
    \A m \in Msgs :
        (h[m].pc = "loop" /\ h[m].i > Len(h[m].urls)) =>
            h[m].new_text = OwnOccurrenceText(event[m].text, 1, obs[m].dup_at_start)

(***************************************************************************)
(* The posted-keys store over process restarts, with no Bitly token: the   *)
(* handler steps of Spec, appends that succeed or fail, and restarts.      *)
(***************************************************************************)
\* at most this many restarts in a run
MaxRestarts == 1

InFlight(m) == h[m].pc \notin {"idle", "done"}

\* the process is stopped and started again: the handlers in flight are
\* gone, and the modules are imported anew (persistence.py lines 7 and 40,
\* bitly.py line 5)
Restart ==
    /\ cur = 0
    /\ restarts < MaxRestarts
    /\ restarts' = restarts + 1
    /\ posted_keys' = load_posted_keys(db_file)
    /\ session' = NoSession
    /\ h' = [m \in Msgs |-> IF InFlight(m) THEN DoneTask ELSE h[m]]
    /\ obs' = [m \in Msgs |->
                 IF InFlight(m) THEN [obs[m] EXCEPT !.outcome = "KILLED"] ELSE obs[m]]
    /\ UNCHANGED <<urlVars, BITLY_TOKEN, db_file, cur, event, sent, alerts, write_failures>>

StoreEvents == {[text |-> TextA, media |-> TRUE], [text |-> TextTwo, media |-> FALSE]}

\* no file, a file with a blank line in it, a file with a key
StoreFiles == {NoFile, FileOf(<< <<>>, UrlS >>), FileOf(<<ASIN1>>)}

StoreInit ==
    /\ \E file \in StoreFiles : BotStart(FALSE, file)
    /\ UrlIdle

StoreNext ==
    \/ \E m \in Msgs, ev \in StoreEvents : Receive(m, ev)
    \/ \E m \in Msgs : SkipPosted(m)
    \/ \E m \in Msgs : ShortenDisabled(m)
    \/ \E m \in Msgs, written \in BOOLEAN : ReplaceAndMark(m, written)
    \/ \E m \in Msgs : AllDuplicates(m)
    \/ \E m \in Msgs : Rewrite(m)
    \/ \E m \in Msgs : Publish(m)
    \/ \E m \in Msgs : PublishOk(m)
    \/ Restart

SpecStore == StoreInit /\ [][StoreNext]_vars

(***************************************************************************)
(* C14: in every state, from the load at startup on, through records       *)
(* whose append succeeds or fails and through restarts, every non-empty    *)
(* line of the file is in the in-memory set of posted keys.                *)
(***************************************************************************)
C14_MemoryCoversFile == NonEmptyLines(db_file) \subseteq posted_keys

C14_Witness ==
    /\ restarts = 1
    /\ write_failures > 0
    /\ NonEmptyLines(db_file) # {}
    /\ posted_keys # NonEmptyLines(db_file)
    /\ \E m \in Msgs : obs[m].epoch = 1 /\ obs[m].wfail

(***************************************************************************)
(* C16: as long as no message was handled since the process started, the   *)
(* in-memory set is exactly the non-empty lines of the file (empty for a   *)
(* missing file); and a message handled after a restart, all of whose      *)
(* keys were in the file when it arrived, is dropped as a duplicate.       *)
(***************************************************************************)
C16_SeededAtStartup ==
    /\ (\A m \in Msgs : h[m].pc # "idle" => obs[m].epoch < restarts)
          => /\ posted_keys = NonEmptyLines(db_file)
             /\ ~db_file.exists => posted_keys = {}
    /\ \A m \in Msgs :
          ( /\ obs[m].epoch >= 1
            /\ EventKeys(m) # {}
            /\ EventKeys(m) \subseteq obs[m].durable_at_start )
              => /\ sent[m] = 0
                 /\ obs[m].keys = <<>>
                 /\ h[m].pc = "done" => obs[m].outcome = "DROPPED"

C16_Witness ==
    \E o, m \in Msgs :
        /\ obs[o].epoch = 0
        /\ obs[o].keys # <<>>
        /\ obs[o].dup_at_start = {}
        /\ obs[m].epoch = 1
        /\ event[m].text = event[o].text
        /\ Range(obs[o].keys) \subseteq obs[m].durable_at_start
        /\ obs[m].outcome = "DROPPED"

(***************************************************************************)
(* The shortener session: the handler steps of Spec with or without a      *)
(* Bitly token, and close_session called once, at any moment at which the  *)
(* event loop is free.                                                     *)
(***************************************************************************)
\* bitly.py lines 46-52: close_session closes the open session; it is
\* called once, when the bot shuts down, whatever the handlers are doing
CloseSession ==
    /\ cur = 0
    /\ ClosedSessions(session) = {}
    /\ session' = close_session(session)
    /\ UNCHANGED <<urlVars, restarts, BITLY_TOKEN, posted_keys, db_file, cur, h, event, sent,
                   alerts, write_failures, obs>>

SessionEvents == {[text |-> TextA, media |-> TRUE], [text |-> TextTwo, media |-> FALSE]}
SessionResponses == {"ok_link", "transport_error"}

SessionInit ==
    /\ \E token \in BOOLEAN : BotStart(token, NoFile)
    /\ UrlIdle

SessionNext ==
    \/ \E m \in Msgs, ev \in SessionEvents : Receive(m, ev)
    \/ \E m \in Msgs : SkipPosted(m)
    \/ \E m \in Msgs : ShortenDisabled(m)
    \/ \E m \in Msgs : ShortenRequest(m)
    \/ \E m \in Msgs, resp \in SessionResponses : ShortenResponse(m, resp)
    \/ \E m \in Msgs : ReplaceAndMark(m, TRUE)
    \/ \E m \in Msgs : AllDuplicates(m)
    \/ \E m \in Msgs : Rewrite(m)
    \/ \E m \in Msgs : Publish(m)
    \/ \E m \in Msgs : PublishOk(m)
    \/ CloseSession

SpecSession == SessionInit /\ [][SessionNext]_vars

(***************************************************************************)
(* C17: over every interleaving of shorten_bitly and close_session calls,  *)
(* at most one session is open at a time; only one session is ever         *)
(* created, by a shorten_bitly call made with a token, and every later     *)
(* call uses it; and once close_session was called no session is open.     *)
(***************************************************************************)
C17_SingleSession ==
    /\ Cardinality(OpenSessions(session)) <= 1
    /\ Len(session.objs) <= 1
    /\ session.objs # <<>> => (BITLY_TOKEN /\ \E m \in Msgs : obs[m].shortens > 0)
    /\ ClosedSessions(session) # {} => OpenSessions(session) = {}

(***************************************************************************)
(* C19: normalize_url_remove_tracking is idempotent: applied to its own    *)
(* result it returns that result, whether the tag or a utm_ parameter is   *)
(* the first parameter of the query, tracking parameters are adjacent, or  *)
(* a fragment follows the query.  Checked in SpecUrl.                      *)
(***************************************************************************)
C19_NormalizeIdempotent == ("norm" \in udone) => (norm2 = norm1)

\* ...s?tag=old-20&utm_source=x&k=1#f was normalized, to another URL
C19_Witness ==
    /\ "norm" \in udone
    /\ uA = RenderUrl(SearchPath, <<OldTagParam, UtmParam, PlainParam>>, <<"#","f">>)
    /\ norm1 # uA
    /\ norm2 = norm1

(***************************************************************************)
(* C20: get_asin tries /dp/<code>, then /gp/product/<code>, then the       *)
(* asin= query parameter, and returns the first pattern's match in upper   *)
(* case: a code in the path is preferred to another code in the query, and *)
(* two URLs that differ only in the letter case of their codes have the    *)
(* same key.  Checked in SpecUrl.                                          *)
(***************************************************************************)
\* the code the pattern order selects for a product URL; None is <<>>
PreferredCode(p) ==
    IF p.place \in {"dp", "gp_dp"} THEN ASIN1
    ELSE IF p.place = "gp" THEN ASIN2
    ELSE IF p.query THEN ASIN4
    ELSE <<>>

C20_PathCodeFirst ==
    ("asin" \in udone) => (asinU = PreferredCode(prod) /\ asinL = asinU)

\* a URL with /dp/<code> and asin=<another code> gave the path's code
C20_Witness ==
    /\ "asin" \in udone
    /\ prod = [place |-> "dp", query |-> TRUE]
    /\ asinU = ASIN1
    /\ asinL = ASIN1
    /\ ASIN4 # ASIN1

(***************************************************************************)
(* C21: when a link fails before its record step (here: the substitution   *)
(* at line 36 raises for a short_url that is not a str), the failing step  *)
(* adds nothing to the posted keys or to the file and the link's key is    *)
(* not among the keys the message has recorded; the keys the message       *)
(* recorded for its earlier links stay in the posted keys, the message     *)
(* records nothing more and is never published.  Checked in Spec.          *)
(***************************************************************************)
\* the handler of m failed before any send call
FailedBeforePublish(m) == obs[m].fault /\ sent[m] = 0

C21_FailedLinkNotRecorded ==
    /\ [](\A m \in Msgs :
            FailedBeforePublish(m) =>
                /\ h[m].pc \in {"alert", "done"}
                /\ Range(obs[m].keys) \subseteq posted_keys)
    /\ [][\A m \in Msgs :
            (h[m].pc = "replace" /\ h'[m].pc = "alert") =>
                /\ posted_keys' = posted_keys
                /\ db_file' = db_file
                /\ h[m].key \notin Range(obs'[m].keys)
                /\ FailedBeforePublish(m)']_vars
    /\ [][\A m \in Msgs :
            FailedBeforePublish(m) =>
                /\ obs'[m].keys = obs[m].keys
                /\ sent'[m] = 0]_vars

\* a message of two links recorded its first link, failed at the second
\* and ended; the first key is in the posted keys and in the file, the
\* second link's key was recorded by nobody
C21_Witness ==
    \E m \in Msgs :
        /\ FailedBeforePublish(m)
        /\ h[m].pc = "done"
        /\ event[m].text = TextTwo
        /\ obs[m].keys = <<ASIN1>>
        /\ ASIN1 \in posted_keys
        /\ ASIN1 \in NonEmptyLines(db_file)
        /\ ~is_posted(product_key(UrlS), posted_keys)

====
